---- MODULE Spec2Model ----
(***************************************************************************)
(* Shape-level model of the decoder notebook (01_decoder.ipynb): the layer *)
(* helpers ConvLayer, ConcatLayer, upconv2x2 and the DecoderConnect block. *)
(*                                                                         *)
(* A tensor is its shape: batch size n, spatial size h x w, and a channel  *)
(* axis kept as a sequence of blocks [src, c] (c channels that came from   *)
(* src), so that concatenation order along the channel axis is visible.    *)
(* The numeric values are not modelled.  The torch primitives the notebook *)
(* calls (Conv2d, ConvTranspose2d, BatchNorm2d, Upsample, torch.cat) are   *)
(* modelled by their shape arithmetic and the shape errors they raise.     *)
(***************************************************************************)
EXTENDS Integers, Sequences, FiniteSets

VARIABLES ctor, net, training, res

vars == <<ctor, net, training, res>>

(***************************************************************************)
(* Bounds of the model and constants of the program.                       *)
(***************************************************************************)
MaxPlanes == 2
MaxDim == 4
MaxKernel == 3

ExamplePlanes == 512
ExampleSize == 7

DefaultStride == 1
DefaultDilation == 1
Conv2dDilation == 1
ScaleFactor == 2

\* Python's None, for an optional argument: the empty tuple; a given value v
\* of an optional integer argument is <<v>>, a given size is <<h, w>>.
None == <<>>

Batches == {1, 2}
Planes == 1..MaxPlanes
Dims == 1..MaxDim
\* The channel counts and spatial sizes DecoderConnect is exercised on: the
\* small ones and those of the notebook's example, DecoderConnect(512, (7, 7)),
\* with the doubled spatial size.
AllPlanes == Planes \cup {ExamplePlanes}
SmallSizes == {<<a, b>> : a \in Dims, b \in Dims}
ExampleSizes == {<<ExampleSize, ExampleSize>>, <<2 * ExampleSize, 2 * ExampleSize>>}
Sizes == {None} \cup SmallSizes \cup {<<ExampleSize, ExampleSize>>}
Kernels == 1..MaxKernel
Strides == {1, 2}
Dilations == {1, 2}
Paddings == {None, <<0>>, <<1>>}
Keys == {0, 1}

(***************************************************************************)
(* Tensors and call outcomes.                                              *)
(***************************************************************************)
Block(src, c) == [src |-> src, c |-> c]

Tensor(n, ch, h, w) == [n |-> n, ch |-> ch, h |-> h, w |-> w]

NoTensor == Tensor(0, <<>>, 0, 0)

RECURSIVE Channels(_)
Channels(ch) == IF ch = <<>> THEN 0 ELSE Head(ch).c + Channels(Tail(ch))

\* One channel label per channel, in axis order: the block structure flattened.
RECURSIVE Flat(_)
Flat(ch) == IF ch = <<>> THEN <<>> ELSE [i \in 1..Head(ch).c |-> Head(ch).src] \o Flat(Tail(ch))

Ok(out, trace) == [ok |-> TRUE, out |-> out, trace |-> trace, err |-> "", at |-> 0, outs |-> <<out>>]

Raise(err, trace) == [ok |-> FALSE, out |-> NoTensor, trace |-> trace, err |-> err, at |-> 0, outs |-> <<>>]

(***************************************************************************)
(* torch primitives, by shape.                                             *)
(***************************************************************************)
\* nn.Conv2d: floor((h + 2p - d(k-1) - 1) / s) + 1 per spatial dimension.
Conv2dSize(h, l) == ((h + 2 * l.padding - l.dilation * (l.kernel_size - 1) - 1) \div l.stride) + 1

\* nn.Conv2d rejects a (dilated) kernel larger than the padded input.
Conv2dFits(h, l) == h + 2 * l.padding >= l.dilation * (l.kernel_size - 1) + 1

\* nn.ConvTranspose2d: (h-1)s - 2p + d(k-1) + 1 per spatial dimension.
ConvTranspose2dSize(h, l) == (h - 1) * l.stride - 2 * l.padding + l.dilation * (l.kernel_size - 1) + 1

ConvApply(l, x) ==
    IF Channels(x.ch) # l.in_channels THEN Raise("conv: channels", <<>>)
    ELSE IF l.cls = "ConvTranspose2d"
    THEN IF ConvTranspose2dSize(x.h, l) < 1 \/ ConvTranspose2dSize(x.w, l) < 1
         THEN Raise("conv: size", <<>>)
         ELSE Ok(Tensor(x.n, <<Block("conv", l.out_channels)>>, ConvTranspose2dSize(x.h, l), ConvTranspose2dSize(x.w, l)), <<"conv">>)
    ELSE IF ~Conv2dFits(x.h, l) \/ ~Conv2dFits(x.w, l)
         THEN Raise("conv: size", <<>>)
         ELSE Ok(Tensor(x.n, <<Block("conv", l.out_channels)>>, Conv2dSize(x.h, l), Conv2dSize(x.w, l)), <<"conv">>)

\* nn.BatchNorm2d in training mode rejects a single value per channel.
BatchNormFits(x, train) == ~train \/ x.n * x.h * x.w > 1

\* Mutant: the target size is dropped and the input is scaled by 2.
UpsampleApply_ScaleOnly(m, x) == Ok(Tensor(x.n, x.ch, x.h * 2, x.w * 2), <<"upsample">>)

\* nn.Upsample(size=...) or nn.Upsample(scale_factor=...), bilinear.
UpsampleApply(m, x) ==
    IF m.size # None
    THEN Ok(Tensor(x.n, x.ch, m.size[1], m.size[2]), <<"upsample">>)
    ELSE Ok(Tensor(x.n, x.ch, x.h * m.scale_factor, x.w * m.scale_factor), <<"upsample">>)

RECURSIVE CatChannels(_)
CatChannels(ts) == IF ts = <<>> THEN <<>> ELSE Head(ts).ch \o CatChannels(Tail(ts))

\* Mutant: operands of different sizes are joined as if cropped to the first.
TorchCat_NoCheck(ts) ==
    IF ts = <<>> THEN Raise("cat: empty", <<>>)
    ELSE Ok(Tensor(ts[1].n, CatChannels(ts), ts[1].h, ts[1].w), <<"cat">>)

\* torch.cat(tensors, dim=1): all other dimensions must agree.
TorchCat(ts) ==
    IF ts = <<>> THEN Raise("cat: empty", <<>>)
    ELSE IF \E i \in 1..Len(ts) : ts[i].n # ts[1].n \/ ts[i].h # ts[1].h \/ ts[i].w # ts[1].w
    THEN Raise("cat: size", <<>>)
    ELSE Ok(Tensor(ts[1].n, CatChannels(ts), ts[1].h, ts[1].w), <<"cat">>)

(***************************************************************************)
(* ConvLayer.                                                              *)
(***************************************************************************)
\* Mutant: no default padding.
DefaultPadding_Zero(kernel_size, transpose) == 0

\* padding = (kernel_size-1)//2 if transpose is not None else 0; transpose is
\* a boolean, which is never None.
DefaultPadding(kernel_size, transpose) == IF transpose \in BOOLEAN THEN (kernel_size - 1) \div 2 ELSE 0

ConvLayer(num_inputs, num_filters, bn, kernel_size, stride, padding, transpose, dilation) ==
    LET pad == IF padding = None THEN DefaultPadding(kernel_size, transpose) ELSE padding[1]
    IN [type |-> "ConvLayer",
        layer |-> IF transpose
                  THEN [cls |-> "ConvTranspose2d", in_channels |-> num_inputs, out_channels |-> num_filters,
                        kernel_size |-> kernel_size, stride |-> stride, padding |-> pad, dilation |-> dilation]
                  ELSE [cls |-> "Conv2d", in_channels |-> num_inputs, out_channels |-> num_filters,
                        kernel_size |-> kernel_size, stride |-> stride, padding |-> pad, dilation |-> Conv2dDilation],
        bn_layer |-> IF bn THEN <<num_filters>> ELSE None]

\* Mutant: normalization before the activation.
ConvLayerForward_BnFirst(m, x, train) ==
    LET c == ConvApply(m.layer, x)
    IN IF ~c.ok THEN c
       ELSE IF m.bn_layer = None THEN Ok(c.out, <<"conv", "relu">>)
       ELSE IF ~BatchNormFits(c.out, train) THEN Raise("bn: size", <<"conv">>)
       ELSE Ok(c.out, <<"conv", "bn", "relu">>)

\* out = self.layer(x); out = F.relu(out); return out or self.bn_layer(out)
ConvLayerForward(m, x, train) ==
    LET c == ConvApply(m.layer, x)
    IN IF ~c.ok THEN c
       ELSE IF m.bn_layer = None THEN Ok(c.out, <<"conv", "relu">>)
       ELSE IF ~BatchNormFits(c.out, train) THEN Raise("bn: size", <<"conv", "relu">>)
       ELSE Ok(c.out, <<"conv", "relu", "bn">>)

(***************************************************************************)
(* ConcatLayer: a mapping is the sequence of its <<key, value>> items in   *)
(* insertion order, which is the order of Python's dict.values().          *)
(***************************************************************************)
\* Mutant: the values in the order of their keys, not of insertion.
Values_SortedByKey(x) ==
    IF Len(x) = 2 /\ x[1][1] > x[2][1] THEN <<x[2][2], x[1][2]>> ELSE [i \in 1..Len(x) |-> x[i][2]]

Values(x) == [i \in 1..Len(x) |-> x[i][2]]

ConcatLayerForward(x) == TorchCat(Values(x))

(***************************************************************************)
(* upconv2x2.                                                              *)
(***************************************************************************)
Upsample(size, scale_factor) == [type |-> "Upsample", size |-> size, scale_factor |-> scale_factor, mode |-> "bilinear", align_corners |-> TRUE]

\* Mutant: the convolution of the pair is padded by 1.
upconv2x2_Padded(inplanes, outplanes, size, stride) ==
    IF size # None
    THEN <<ConvLayer(inplanes, outplanes, TRUE, 2, stride, <<1>>, FALSE, 2), Upsample(size, None)>>
    ELSE <<ConvLayer(inplanes, outplanes, TRUE, 2, stride, <<1>>, FALSE, 2), Upsample(None, ScaleFactor)>>

upconv2x2(inplanes, outplanes, size, stride) ==
    IF size # None
    THEN <<ConvLayer(inplanes, outplanes, TRUE, 2, stride, None, FALSE, 2), Upsample(size, None)>>
    ELSE <<ConvLayer(inplanes, outplanes, TRUE, 2, stride, None, FALSE, 2), Upsample(None, ScaleFactor)>>

(***************************************************************************)
(* nn.Sequential and DecoderConnect.                                       *)
(***************************************************************************)
ModuleForward(m, x, train) ==
    CASE m.type = "ConvLayer" -> ConvLayerForward(m, x, train)
      [] m.type = "Upsample" -> UpsampleApply(m, x)
      [] m.type = "ConcatLayer" -> ConcatLayerForward(x)

\* Runs the modules in order from module i on; stops at the first that raises.
RECURSIVE SequentialFrom(_, _, _, _)
SequentialFrom(ms, i, x, train) ==
    IF i > Len(ms) THEN [ok |-> TRUE, out |-> x, trace |-> <<>>, err |-> "", at |-> 0, outs |-> <<>>]
    ELSE LET r == ModuleForward(ms[i], x, train)
         IN IF ~r.ok THEN [r EXCEPT !.at = i]
            ELSE LET rest == SequentialFrom(ms, i + 1, r.out, train)
                 IN [rest EXCEPT !.trace = r.trace \o @, !.outs = <<r.out>> \o @]

SequentialForward(ms, x, train) == SequentialFrom(ms, 1, x, train)

\* Mutant: the last convolution widens to 2C channels.
DecoderConnect_WideOut(inplanes, output_size) ==
    [type |-> "DecoderConnect",
     bottom_process |-> <<ConvLayer(inplanes, inplanes * 2, TRUE, 3, DefaultStride, None, FALSE, DefaultDilation),
                          ConvLayer(inplanes * 2, inplanes * 2, TRUE, 3, DefaultStride, None, FALSE, DefaultDilation)>>
                        \o upconv2x2(inplanes * 2, inplanes, output_size, DefaultStride),
     concat_process |-> <<[type |-> "ConcatLayer"],
                          ConvLayer(inplanes * 2, inplanes * 2, TRUE, 1, DefaultStride, None, FALSE, DefaultDilation),
                          ConvLayer(inplanes * 2, inplanes, TRUE, 3, DefaultStride, None, FALSE, DefaultDilation),
                          ConvLayer(inplanes, inplanes * 2, TRUE, 3, DefaultStride, None, FALSE, DefaultDilation)>>]

\* Mutant: the upsample pair keeps 2C channels, so the concatenation has 3C.
DecoderConnect_NoHalving(inplanes, output_size) ==
    [type |-> "DecoderConnect",
     bottom_process |-> <<ConvLayer(inplanes, inplanes * 2, TRUE, 3, DefaultStride, None, FALSE, DefaultDilation),
                          ConvLayer(inplanes * 2, inplanes * 2, TRUE, 3, DefaultStride, None, FALSE, DefaultDilation)>>
                        \o upconv2x2(inplanes * 2, inplanes * 2, output_size, DefaultStride),
     concat_process |-> <<[type |-> "ConcatLayer"],
                          ConvLayer(inplanes * 2, inplanes * 2, TRUE, 1, DefaultStride, None, FALSE, DefaultDilation),
                          ConvLayer(inplanes * 2, inplanes, TRUE, 3, DefaultStride, None, FALSE, DefaultDilation),
                          ConvLayer(inplanes, inplanes, TRUE, 3, DefaultStride, None, FALSE, DefaultDilation)>>]

DecoderConnect(inplanes, output_size) ==
    [type |-> "DecoderConnect",
     bottom_process |-> <<ConvLayer(inplanes, inplanes * 2, TRUE, 3, DefaultStride, None, FALSE, DefaultDilation),
                          ConvLayer(inplanes * 2, inplanes * 2, TRUE, 3, DefaultStride, None, FALSE, DefaultDilation)>>
                        \o upconv2x2(inplanes * 2, inplanes, output_size, DefaultStride),
     concat_process |-> <<[type |-> "ConcatLayer"],
                          ConvLayer(inplanes * 2, inplanes * 2, TRUE, 1, DefaultStride, None, FALSE, DefaultDilation),
                          ConvLayer(inplanes * 2, inplanes, TRUE, 3, DefaultStride, None, FALSE, DefaultDilation),
                          ConvLayer(inplanes, inplanes, TRUE, 3, DefaultStride, None, FALSE, DefaultDilation)>>]

\* decoder_input = self.bottom_process(x)
\* return self.concat_process({0: x, 1: decoder_input})
DecoderConnectForward(m, x, train) ==
    LET b == SequentialForward(m.bottom_process, x, train)
    IN IF ~b.ok
       THEN [ok |-> FALSE, out |-> NoTensor, trace |-> b.trace, err |-> b.err, at |-> b.at,
             stage |-> "bottom_process", decoder_input |-> NoTensor, cat |-> NoTensor]
       ELSE LET c == SequentialForward(m.concat_process, <<<<0, x>>, <<1, b.out>>>>, train)
            IN [ok |-> c.ok, out |-> c.out, trace |-> b.trace \o c.trace, err |-> c.err, at |-> c.at,
                stage |-> "concat_process", decoder_input |-> b.out,
                cat |-> IF c.outs = <<>> THEN NoTensor ELSE c.outs[1]]

(***************************************************************************)
(* The state machine: a caller builds one module, may switch it between    *)
(* training and evaluation mode, calls it, and takes the outcome.          *)
(*   ctor      the constructor call that built net                         *)
(*   net       the module built (its layers)                               *)
(*   training  nn.Module.training (a new module is in training mode)       *)
(*   res       the outcome of the call in progress                         *)
(***************************************************************************)
NoNet == [type |-> "none"]
NoCall == [call |-> "none"]

Init ==
    /\ ctor = NoCall
    /\ net = NoNet
    /\ training = TRUE
    /\ res = NoCall

\* Inputs.
Inputs == {Tensor(n, <<Block("x", c)>>, s[1], s[2]) : n \in Batches, c \in AllPlanes, s \in SmallSizes \cup ExampleSizes}

SmallInputs == {Tensor(n, <<Block("x", c)>>, h, w) : n \in Batches, c \in Planes, h \in Dims, w \in Dims}

Named(name) == {Tensor(n, <<Block(name, c)>>, h, w) : n \in Batches, c \in Planes, h \in Dims, w \in Dims}

\* Dicts of up to two items: the first inserted value is A, the second is B,
\* under distinct keys in either order.
Mappings ==
    {<<>>}
    \cup {<<<<k, a>>>> : k \in Keys, a \in Named("A")}
    \cup {<<<<k[1], a>>, <<k[2], b>>>> : k \in {<<0, 1>>, <<1, 0>>}, a \in Named("A"), b \in Named("B")}

\* model = DecoderConnect(inplanes, output_size)
NewDecoderConnect ==
    /\ net = NoNet
    /\ \E inplanes \in AllPlanes, output_size \in Sizes :
           /\ ctor' = [call |-> "DecoderConnect", inplanes |-> inplanes, output_size |-> output_size]
           /\ net' = DecoderConnect(inplanes, output_size)
    /\ training' = TRUE
    /\ UNCHANGED res

NewConcatLayer ==
    /\ net = NoNet
    /\ ctor' = [call |-> "ConcatLayer"]
    /\ net' = [type |-> "ConcatLayer"]
    /\ training' = TRUE
    /\ UNCHANGED res

NewConvLayer ==
    /\ net = NoNet
    /\ \E num_inputs \in Planes, num_filters \in Planes, bn \in BOOLEAN, kernel_size \in Kernels, stride \in Strides :
       \E padding \in Paddings, transpose \in BOOLEAN, dilation \in Dilations :
           /\ ctor' = [call |-> "ConvLayer", num_inputs |-> num_inputs, num_filters |-> num_filters, bn |-> bn,
                       kernel_size |-> kernel_size, stride |-> stride, padding |-> padding,
                       transpose |-> transpose, dilation |-> dilation]
           /\ net' = ConvLayer(num_inputs, num_filters, bn, kernel_size, stride, padding, transpose, dilation)
    /\ training' = TRUE
    /\ UNCHANGED res

\* The pair upconv2x2 returns, chained as nn.Sequential(*upconv2x2(...)).
NewUpconv2x2 ==
    /\ net = NoNet
    /\ \E inplanes \in Planes, outplanes \in Planes, size \in Sizes, stride \in Strides :
           /\ ctor' = [call |-> "upconv2x2", inplanes |-> inplanes, outplanes |-> outplanes, size |-> size, stride |-> stride]
           /\ net' = [type |-> "Sequential", modules |-> upconv2x2(inplanes, outplanes, size, stride)]
    /\ training' = TRUE
    /\ UNCHANGED res

\* net.train(mode) / net.eval()
Train ==
    /\ net # NoNet
    /\ res = NoCall
    /\ \E mode \in BOOLEAN : training' = mode
    /\ UNCHANGED <<ctor, net, res>>

CallDecoderConnect ==
    /\ net.type = "DecoderConnect"
    /\ res = NoCall
    /\ \E x \in Inputs :
           res' = [call |-> "DecoderConnect.forward", x |-> x, training |-> training, r |-> DecoderConnectForward(net, x, training)]
    /\ UNCHANGED <<ctor, net, training>>

CallConcatLayer ==
    /\ net.type = "ConcatLayer"
    /\ res = NoCall
    /\ \E x \in Mappings :
           res' = [call |-> "ConcatLayer.forward", x |-> x, training |-> training, r |-> ConcatLayerForward(x)]
    /\ UNCHANGED <<ctor, net, training>>

CallConvLayer ==
    /\ net.type = "ConvLayer"
    /\ res = NoCall
    /\ \E x \in SmallInputs :
           res' = [call |-> "ConvLayer.forward", x |-> x, training |-> training, r |-> ConvLayerForward(net, x, training)]
    /\ UNCHANGED <<ctor, net, training>>

CallUpconv2x2 ==
    /\ net.type = "Sequential"
    /\ res = NoCall
    /\ \E x \in SmallInputs :
           res' = [call |-> "upconv2x2.forward", x |-> x, training |-> training, r |-> SequentialForward(net.modules, x, training)]
    /\ UNCHANGED <<ctor, net, training>>

\* The caller takes the output (or the exception) of the call.
Return ==
    /\ res # NoCall
    /\ res' = NoCall
    /\ UNCHANGED <<ctor, net, training>>

\* The caller drops the module.
Del ==
    /\ net # NoNet
    /\ res = NoCall
    /\ ctor' = NoCall
    /\ net' = NoNet
    /\ training' = TRUE
    /\ UNCHANGED res

Next ==
    \/ NewDecoderConnect
    \/ NewConcatLayer
    \/ Train
    \/ CallDecoderConnect
    \/ CallConcatLayer
    \/ Return
    \/ Del

Spec == Init /\ [][Next]_vars

NextLayers ==
    \/ NewConvLayer
    \/ NewUpconv2x2
    \/ Train
    \/ CallConvLayer
    \/ CallUpconv2x2
    \/ Return
    \/ Del

SpecLayers == Init /\ [][NextLayers]_vars

(***************************************************************************)
(* Properties.                                                             *)
(***************************************************************************)
\* A call of DecoderConnect.forward is in res, on an input of inplanes channels.
DCCall == res.call = "DecoderConnect.forward" /\ Channels(res.x.ch) = ctor.inplanes

HW(t) == <<t.h, t.w>>

Twice(size) == <<2 * size[1], 2 * size[2]>>

ExampleInput(size) == Tensor(1, <<Block("x", ExamplePlanes)>>, size, size)

ExampleCall == DCCall /\ ctor.inplanes = ExamplePlanes /\ ctor.output_size = <<ExampleSize, ExampleSize>>

\* C1, as stated: DecoderConnect(C, S) on an input of C channels and twice the
\* spatial size S completes and yields an output of shape (batch, C, S).
C1_TwiceSizeYieldsS ==
    (DCCall /\ ctor.output_size # None /\ HW(res.x) = Twice(ctor.output_size))
        => /\ res.r.ok
           /\ res.r.out.n = res.x.n
           /\ Channels(res.r.out.ch) = ctor.inplanes
           /\ HW(res.r.out) = ctor.output_size

\* C1, amended: DecoderConnect(C, S) on an input of C channels completes only
\* when the input's spatial size is S itself, and then yields shape
\* (batch, C, S); on an input of twice the size S it raises and yields nothing.
\* DecoderConnect(512, (7,7)) yields (1,512,7,7) on (1,512,7,7) and fails at
\* the concatenation on (1,512,14,14).
C1_SameSizeYieldsS ==
    (DCCall /\ ctor.output_size # None)
        => /\ res.r.ok => /\ HW(res.x) = ctor.output_size
                          /\ res.r.out.n = res.x.n
                          /\ Channels(res.r.out.ch) = ctor.inplanes
                          /\ HW(res.r.out) = ctor.output_size
           /\ HW(res.x) = Twice(ctor.output_size)
                 => ~res.r.ok /\ res.r.out = NoTensor /\ res.r.err \in {"cat: size", "bn: size"}
           /\ (ExampleCall /\ res.x = ExampleInput(ExampleSize))
                 => res.r.ok /\ res.r.out.n = 1 /\ HW(res.r.out) = <<ExampleSize, ExampleSize>>
           /\ (ExampleCall /\ res.x = ExampleInput(2 * ExampleSize))
                 => res.r.err = "cat: size" /\ res.r.stage = "concat_process"

C1_Witness ==
    /\ ExampleCall
    /\ res.x = ExampleInput(2 * ExampleSize)
    /\ res.r.err = "cat: size"

\* C2: whenever DecoderConnect.forward completes on an input of C channels,
\* the output has exactly C channels and the input's spatial size.
C2_OutputShape ==
    (DCCall /\ res.r.ok)
        => /\ Channels(res.r.out.ch) = ctor.inplanes
           /\ res.r.out.h = res.x.h
           /\ res.r.out.w = res.x.w

C2_Witness ==
    /\ DCCall
    /\ res.r.ok
    /\ res.x.h # res.x.w
    /\ ctor.inplanes > 1

BottomTrace == <<"conv", "relu", "bn", "conv", "relu", "bn", "conv", "relu", "bn", "upsample">>

Declared(m) == <<m.layer.in_channels, m.layer.out_channels, m.layer.kernel_size>>

\* C4: the layers DecoderConnect builds balance: conv3x3 C->2C, conv3x3 2C->2C,
\* upsample pair 2C->C; concatenation of C and C channels is the 2C the
\* conv1x1 declares; conv1x1 2C->2C, conv3x3 2C->C, conv3x3 C->C; every layer's
\* declared input is what the step before produces.
C4_ChannelArithmetic ==
    net.type = "DecoderConnect"
        => LET C == ctor.inplanes
               b == net.bottom_process
               c == net.concat_process
           IN /\ Len(b) = 4 /\ Len(c) = 4
              /\ Declared(b[1]) = <<C, 2 * C, 3>>
              /\ Declared(b[2]) = <<2 * C, 2 * C, 3>>
              /\ Declared(b[3]) = <<2 * C, C, 2>>
              /\ b[4].type = "Upsample"
              /\ c[1].type = "ConcatLayer"
              /\ Declared(c[2]) = <<2 * C, 2 * C, 1>>
              /\ Declared(c[3]) = <<2 * C, C, 3>>
              /\ Declared(c[4]) = <<C, C, 3>>
              /\ \A i \in 1..2 : b[i + 1].layer.in_channels = b[i].layer.out_channels
              /\ c[2].layer.in_channels = C + b[3].layer.out_channels
              /\ \A i \in 2..3 : c[i + 1].layer.in_channels = c[i].layer.out_channels
              /\ \A i \in 1..3 : b[i].bn_layer = <<b[i].layer.out_channels>>
              /\ \A i \in 2..4 : c[i].bn_layer = <<c[i].layer.out_channels>>

C4_Witness ==
    /\ net.type = "DecoderConnect"
    /\ ctor.inplanes = ExamplePlanes
    /\ net.concat_process[2].layer.in_channels = 2 * ExamplePlanes

\* A call of a standard ConvLayer built without an explicit padding, stride 1,
\* on an input of the declared channel count.
DefaultConvCall ==
    /\ res.call = "ConvLayer.forward"
    /\ ~ctor.transpose
    /\ ctor.padding = None
    /\ ctor.stride = 1
    /\ Channels(res.x.ch) = ctor.num_inputs

\* C5, as stated: with the default padding a stride-1 standard ConvLayer
\* preserves the spatial size, for every kernel size.
C5_DefaultPaddingPreservesSize ==
    DefaultConvCall
        => /\ res.r.err # "conv: size"
           /\ res.r.ok => HW(res.r.out) = HW(res.x)

\* C5, amended: the default padding (kernel_size-1)//2 preserves the spatial
\* size for every odd kernel size; for an even kernel size the output is
\* (h-1) x (w-1), and the convolution is rejected when h < 2 or w < 2.
C5_OddKernelPreservesSize ==
    DefaultConvCall
        => IF ctor.kernel_size % 2 = 1
           THEN /\ res.r.err # "conv: size"
                /\ res.r.ok => HW(res.r.out) = HW(res.x)
           ELSE /\ res.r.err = "conv: size" <=> (res.x.h < 2 \/ res.x.w < 2)
                /\ res.r.ok => HW(res.r.out) = <<res.x.h - 1, res.x.w - 1>>

C5_Witness ==
    /\ DefaultConvCall
    /\ ctor.kernel_size = 3
    /\ res.r.ok
    /\ res.x.h # res.x.w
    /\ HW(res.r.out) = HW(res.x)

\* The size a convolution of kernel k, stride s, padding p and dilation d
\* gives: floor((h + 2p - d(k-1) - 1) / s) + 1.
DilatedSize(h, k, s, p, d) == ((h + 2 * p - d * (k - 1) - 1) \div s) + 1

\* C6: the convolution of the pair upconv2x2 builds has kernel size 2 and
\* dilation 2; a ConvLayer built with dilation d applies a convolution of
\* dilation d, transposed or not, and the output size of the standard one
\* follows the arithmetic with that d.
C6_DilationApplied ==
    /\ net.type = "Sequential"
          => net.modules[1].layer.kernel_size = 2 /\ net.modules[1].layer.dilation = 2
    /\ net.type = "ConvLayer" => net.layer.dilation = ctor.dilation
    /\ (res.call = "ConvLayer.forward" /\ ~ctor.transpose /\ res.r.ok)
          => /\ res.r.out.h = DilatedSize(res.x.h, ctor.kernel_size, ctor.stride, net.layer.padding, ctor.dilation)
             /\ res.r.out.w = DilatedSize(res.x.w, ctor.kernel_size, ctor.stride, net.layer.padding, ctor.dilation)

\* C7: upconv2x2 returns a convolution followed by a bilinear upsample; with
\* a target size the pair maps every input it accepts to that size; without
\* one it takes (h, w) to (2h, 2w).
C7_PairUpsamples ==
    /\ net.type = "Sequential"
          => /\ Len(net.modules) = 2
             /\ net.modules[1].type = "ConvLayer"
             /\ net.modules[2].type = "Upsample"
             /\ net.modules[2].mode = "bilinear"
    /\ (res.call = "upconv2x2.forward" /\ res.r.ok)
          => IF ctor.size # None
             THEN HW(res.r.out) = ctor.size
             ELSE HW(res.r.out) = <<2 * res.x.h, 2 * res.x.w>>

\* The channel labels at positions a..b of a channel axis are all src.
AllFrom(ch, a, b, src) == \A i \in a..b : Flat(ch)[i] = src

\* C8: ConcatLayer lays the channels of the mapping's values end to end in the
\* order the caller inserted them; the channel count is the sum; swapping the
\* two values swaps the two blocks; in DecoderConnect.forward the channels of
\* x come first and those of the downward branch after them.
C8_ConcatOrder ==
    /\ (res.call = "ConcatLayer.forward" /\ res.r.ok /\ Len(res.x) = 1)
          => LET a == Channels(res.x[1][2].ch)
             IN /\ Channels(res.r.out.ch) = a
                /\ AllFrom(res.r.out.ch, 1, a, "A")
    /\ (res.call = "ConcatLayer.forward" /\ res.r.ok /\ Len(res.x) = 2)
          => LET a == Channels(res.x[1][2].ch)
                 b == Channels(res.x[2][2].ch)
                 swapped == ConcatLayerForward(<<<<res.x[1][1], res.x[2][2]>>, <<res.x[2][1], res.x[1][2]>>>>).out
             IN /\ Channels(res.r.out.ch) = a + b
                /\ AllFrom(res.r.out.ch, 1, a, "A")
                /\ AllFrom(res.r.out.ch, a + 1, a + b, "B")
                /\ Flat(swapped.ch) = SubSeq(Flat(res.r.out.ch), a + 1, a + b) \o SubSeq(Flat(res.r.out.ch), 1, a)
    /\ (res.call = "DecoderConnect.forward" /\ res.r.cat # NoTensor)
          => LET a == Channels(res.x.ch)
                 b == Channels(res.r.decoder_input.ch)
             IN /\ Channels(res.r.cat.ch) = a + b
                /\ AllFrom(res.r.cat.ch, 1, a, "x")
                /\ AllFrom(res.r.cat.ch, a + 1, a + b, "conv")

C8_Witness ==
    /\ res.call = "ConcatLayer.forward"
    /\ res.r.ok
    /\ Len(res.x) = 2
    /\ res.x[1][1] = 1
    /\ res.x[2][1] = 0
    /\ Channels(res.x[1][2].ch) # Channels(res.x[2][2].ch)

Positions(trace, op) == {i \in 1..Len(trace) : trace[i] = op}

ConvLayerOrder(trace) ==
    \A i \in Positions(trace, "conv") :
        /\ i + 2 <= Len(trace)
        /\ trace[i + 1] = "relu"
        /\ trace[i + 2] = "bn"

FullTrace == BottomTrace \o <<"cat", "conv", "relu", "bn", "conv", "relu", "bn", "conv", "relu", "bn">>

BranchMatches ==
    IF ctor.output_size # None
    THEN ctor.output_size = HW(res.x)
    ELSE 2 * (res.x.h - 1) = res.x.h /\ 2 * (res.x.w - 1) = res.x.w

KernelFits == res.x.h >= 2 /\ res.x.w >= 2

\* C10, as stated: forward completes exactly when h >= 2, w >= 2 and the
\* upsampled branch has the size of x (S = (h, w), or h = w = 2 without S);
\* in every other case the concatenation fails.
C10_CompletesIffMatch ==
    DCCall
        => /\ res.r.ok <=> (KernelFits /\ BranchMatches)
           /\ ~(KernelFits /\ BranchMatches) => res.r.err = "cat: size"

\* Batch normalization in training mode accepts the map of n x h x w values.
NormFits(h, w) == ~res.training \/ res.x.n * h * w > 1

\* C10, amended: forward completes exactly when h >= 2, w >= 2, the upsampled
\* branch has the size of x and, in training mode, batch*(h-1)*(w-1) > 1.
\* Otherwise it raises: at the first ConvLayer's batch norm for a single 1x1
\* sample in training mode; else at the kernel-size-2 convolution when h < 2
\* or w < 2; else at that ConvLayer's batch norm when batch*(h-1)*(w-1) = 1 in
\* training mode; else at the concatenation.
C10_CompletesIffFitsAndMatch ==
    DCCall
        => /\ res.r.ok <=> (KernelFits /\ NormFits(res.x.h - 1, res.x.w - 1) /\ BranchMatches)
           /\ ~res.r.ok
                 => <<res.r.stage, res.r.at, res.r.err>> =
                        IF ~NormFits(res.x.h, res.x.w) THEN <<"bottom_process", 1, "bn: size">>
                        ELSE IF ~KernelFits THEN <<"bottom_process", 3, "conv: size">>
                        ELSE IF ~NormFits(res.x.h - 1, res.x.w - 1) THEN <<"bottom_process", 3, "bn: size">>
                        ELSE <<"concat_process", 1, "cat: size">>

C10_Witness ==
    /\ DCCall
    /\ ctor.output_size = None
    /\ res.r.ok
    /\ HW(res.x) = <<2, 2>>

====
